---- MODULE Spec2Model ----
(***************************************************************************)
(* A model of the emcee3 ensemble sampler: the Ensemble propose/update     *)
(* protocol and its pickling, the Metropolis-Hastings, Hamiltonian (fixed  *)
(* and adaptive covariance) and No-U-Turn moves and the in-memory and HDF  *)
(* backends.                                                               *)
(*                                                                         *)
(* Numbers.  Coordinates, momenta and gradients are integers (ndim = 1).   *)
(* Every log-density (lnprior, lnlike, factor, log(u)) is held in fixed    *)
(* point, in units of 1/2, so that the kinetic energy 0.5*p*p is the       *)
(* integer p*p.  The IEEE values -inf, +inf and nan are the three          *)
(* sentinels NegInf, PosInf and NaN, with the arithmetic and comparisons   *)
(* of floating point (Add, LT, isfinite).                                  *)
(***************************************************************************)
EXTENDS Integers, Sequences, FiniteSets, TLC

\* ------------------------------------------------------------------ bounds
\* the momenta sampled are -PMax..PMax
PMax == 2
\* the number of leapfrog steps of an HMC trajectory is 1..MaxL
MaxL == 2
\* the backends record at most MaxIter iterations
MaxIter == 3
\* extend(n) is called with n in 0..MaxExtend
MaxExtend == 2
\* random.rand() returns one of 0/RandDen .. (RandDen-1)/RandDen
RandDen == 2

\* ------------------------------------------------- floating point sentinels
\* -inf, below every log-density the model computes
NegInf == -1000000
\* +inf
PosInf == 0 - NegInf
\* nan, a value apart from every other
NaN == PosInf + 1

\* Ensemble.nwalkers: the rows of the coordinate matrix
nwalkers == 2

isfinite(x) == x \notin {NegInf, PosInf, NaN}

\* x + y in IEEE arithmetic
Add(x, y) ==
    IF x = NaN \/ y = NaN THEN NaN
    ELSE IF x = PosInf THEN (IF y = NegInf THEN NaN ELSE PosInf)
    ELSE IF x = NegInf THEN (IF y = PosInf THEN NaN ELSE NegInf)
    ELSE IF y \in {PosInf, NegInf} THEN y
    ELSE x + y

\* -x in IEEE arithmetic
Neg(x) ==
    IF x = NaN THEN NaN
    ELSE IF x = PosInf THEN NegInf
    ELSE IF x = NegInf THEN PosInf
    ELSE 0 - x

\* x < y in IEEE arithmetic: every comparison with nan is false
LT(x, y) == x # NaN /\ y # NaN /\ x < y

Walkers == 1..nwalkers

\* ------------------------------------------------ the model: NormalWalker
ivar == 2
width == 1

abs(x) == IF x = NaN THEN NaN ELSE IF x < 0 THEN Neg(x) ELSE x

\* NormalWalker.get_lnprior: -inf where any |p| > width, else 0
get_lnprior(p) == IF LT(width, abs(p)) THEN NegInf ELSE 0

\* NormalWalker.get_lnlike: -0.5 * sum(p ** 2 * ivar), in units of 1/2
get_lnlike(p) ==
    IF p = NaN THEN NaN
    ELSE IF p \in {PosInf, NegInf} THEN NegInf
    ELSE 0 - (p * p * ivar)

\* the gradient of the log-probability of NormalWalker, in units of 1
grad_lnprob(p) == 0 - (ivar * p)

\* walker.propose(coords): the State evaluated at the coordinates
State(q) ==
    [coords |-> q, lnprior |-> get_lnprior(q), lnlike |-> get_lnlike(q),
     accepted |-> FALSE]

\* State.log_probability (lnprob)
lnprob(s) == Add(s.lnprior, s.lnlike)

\* ------------------------------------------------------------------ state
VARIABLES
    walkers,      \* Ensemble.walkers: the list of States
    _coords,      \* Ensemble._coords
    _lnprior,     \* Ensemble._lnprior
    _lnlike,      \* Ensemble._lnlike
    acceptance,   \* Ensemble.acceptance
    raised,       \* how the last call on the ensemble ended
    lastMove,     \* the move of the last step
    decided,      \* the move's accept/reject decision per walker, last step
    hm,           \* HamiltonianMove.update in progress: its position and locals
    nuts,         \* the _nuts_wrapper.__call__ that pool.map is running
    inmap,        \* a draw from the random stream was made inside pool.map
    dflt,         \* a DefaultBackend object
    hdf,          \* a HDFBackend object
    hdf2,         \* a second HDFBackend object on the same file and name
    file,         \* the HDF5 file of the HDFBackend
    recD,         \* the ensembles whose record the DefaultBackend completed
    recH,         \* the ensembles whose record the HDFBackend completed
    pool,         \* Ensemble.pool, or that the object has no such attribute
    pickled,      \* the state __getstate__ returned, as serialized
    restored      \* the Ensemble that __setstate__ restored

\* the ensemble and the move in progress
ens == <<walkers, _coords, _lnprior, _lnlike, acceptance, raised,
         lastMove, decided, hm, nuts, inmap, pool, pickled, restored>>

\* the pool of the ensemble and its serialized and restored copies
pk == <<pool, pickled, restored>>

\* the backends
bk == <<dflt, hdf, hdf2, file, recD, recH>>

vars == <<ens, bk>>

\* ------------------------------------------------------------ the Ensemble
\* the inputs of the model: initial and proposed coordinates, the
\* log-ratios a proposal function returns, and log(random.rand())
InitCoords == (0 - width - 1)..(width + 1)
PropCoords == InitCoords \cup {PosInf}
Factors == {0}
LogUs == {NegInf, 0 - 3, 0 - 1}

allfinite(f) == \A i \in DOMAIN f : isfinite(f[i])

\* Ensemble.__init__: evaluate the walkers, save the probabilities, check
\* them.  The fields are those the constructor has assigned when it returns
\* or raises.
Ensemble__init__(coords) ==
    LET ws == [i \in DOMAIN coords |-> State(coords[i])]
        lp == [i \in DOMAIN coords |-> ws[i].lnprior]
        ll == [i \in DOMAIN coords |-> ws[i].lnlike]
    IN  [walkers |-> ws, _coords |-> coords, _lnprior |-> lp, _lnlike |-> ll,
         acceptance |-> [i \in DOMAIN coords |-> TRUE],
         raised |-> IF allfinite(lp) /\ allfinite(ll) THEN "no"
                    ELSE "ValueError"]

\* Ensemble.propose: the States at the proposed coordinates, in order
propose(q) == [i \in DOMAIN q |-> State(q[i])]

\* the check, were the log-priors left out of it
update_check_nolnprior(c, lp, ll) ==
    IF allfinite(c) /\ allfinite(ll) THEN "no"
    ELSE "RuntimeError"

\* the finiteness check that ends Ensemble.update
update_check(c, lp, ll) ==
    IF allfinite(c) /\ allfinite(lp) /\ allfinite(ll) THEN "no"
    ELSE "RuntimeError"

\* the update, were the coordinate matrix filled from the walkers as they
\* were before the states were handed over
Ensemble_update_stale(ws, states) ==
    LET nw == [i \in DOMAIN ws |-> IF i \in DOMAIN states THEN states[i]
                                    ELSE ws[i]]
        c  == [i \in DOMAIN ws |-> ws[i].coords]
        lp == [i \in DOMAIN ws |-> nw[i].lnprior]
        ll == [i \in DOMAIN ws |-> nw[i].lnlike]
    IN  [walkers |-> nw, _coords |-> c, _lnprior |-> lp, _lnlike |-> ll,
         raised |-> update_check(c, lp, ll)]

\* Ensemble.update: the states handed over are the walkers at their
\* indices; every walker is copied to the coordinate matrix and to the
\* probability vectors, then the whole ensemble is checked.
Ensemble_update(ws, states) ==
    LET nw == [i \in DOMAIN ws |-> IF i \in DOMAIN states THEN states[i]
                                  ELSE ws[i]]
        c  == [i \in DOMAIN ws |-> nw[i].coords]
        lp == [i \in DOMAIN ws |-> nw[i].lnprior]
        ll == [i \in DOMAIN ws |-> nw[i].lnlike]
    IN  [walkers |-> nw, _coords |-> c, _lnprior |-> lp, _lnlike |-> ll,
         raised |-> update_check(c, lp, ll)]

\* no HamiltonianMove.update is running
Idle == [pc |-> "idle"]

\* pool.map is running no _nuts_wrapper.__call__
NoTask == [pc |-> "none"]

\* DefaultBackend.__init__ and DefaultBackend.reset: an empty chain
DefaultBackend ==
    [niter |-> 0, size |-> 0, dims |-> FALSE, alloc |-> FALSE,
     _coords |-> <<>>, _lnprior |-> <<>>, _lnlike |-> <<>>,
     _acceptance |-> <<>>]

\* HDFBackend.__init__ and HDFBackend.reset
HDFBackend == [initialized |-> FALSE, dims |-> FALSE]

\* the second HDFBackend object, before it is constructed
NotMade == [made |-> FALSE, initialized |-> FALSE, dims |-> FALSE]

\* a file that holds no group of the backend's name
NoGroup == [group |-> FALSE]

InitBackends ==
    /\ dflt = DefaultBackend
    /\ hdf = HDFBackend
    /\ hdf2 = NotMade
    /\ file = NoGroup
    /\ recD = <<>>
    /\ recH = <<>>

\* kwargs.pop("pool", DefaultPool()): the default pool or one the caller
\* gave; NoPool stands for an object without the attribute
Pools == {"DefaultPool", "UserPool"}
NoPool == "no attribute"

\* nothing was serialized or restored
NotPickled == [made |-> FALSE]

\* the state once Ensemble(walker, coords, pool=p) has returned or raised,
\* no move made and the backends new
InitWith(coords, p) ==
        LET e == Ensemble__init__(coords) IN
        /\ walkers = e.walkers
        /\ _coords = e._coords
        /\ _lnprior = e._lnprior
        /\ _lnlike = e._lnlike
        /\ acceptance = e.acceptance
        /\ raised = e.raised
        /\ lastMove = "none"
        /\ decided = [i \in DOMAIN coords |-> FALSE]
        /\ hm = Idle
        /\ nuts = NoTask
        /\ inmap = FALSE
        /\ pool = p
        /\ pickled = NotPickled
        /\ restored = NotPickled
        /\ InitBackends

\* the state once Ensemble(walker, coords) has returned or raised
InitAt(coords) == InitWith(coords, "DefaultPool")

Init == \E coords \in [Walkers -> InitCoords] : InitAt(coords)

\* a move may start on an ensemble that was constructed and whose last
\* update did not raise: the driver stops the run on any error
CanStep == raised = "no" /\ hm.pc = "idle"

\* ------------------------------------------------------------------ MHMove
\* the acceptance test of MHMove.update:
\* lnpdiff > 0.0 or random.rand() < exp(lnpdiff)
mh_accept(lnpdiff, logu) == LT(0, lnpdiff) \/ LT(logu, lnpdiff)

\* MHMove.update: propose every walker, mark the accepted states, hand all
\* the states to Ensemble.update
MHMove_update ==
    /\ CanStep
    /\ \E q \in [Walkers -> PropCoords], factor \in [Walkers -> Factors],
          logu \in [Walkers -> LogUs] :
        LET st == propose(q)
            lnpdiff == [i \in Walkers |->
                Add(Add(lnprob(st[i]), Neg(lnprob(walkers[i]))), factor[i])]
            acc == [i \in Walkers |-> mh_accept(lnpdiff[i], logu[i])]
            states == [i \in Walkers |-> [st[i] EXCEPT !.accepted = acc[i]]]
            e == Ensemble_update(walkers, states)
        IN  /\ walkers' = e.walkers
            /\ _coords' = e._coords
            /\ _lnprior' = e._lnprior
            /\ _lnlike' = e._lnlike
            /\ raised' = e.raised
            /\ decided' = acc
    /\ lastMove' = "MH"
    /\ UNCHANGED <<bk, pk>>
    /\ UNCHANGED <<acceptance, hm, nuts, inmap>>

\* --------------------------------------------------------- HamiltonianMove
\* the configuration of the move: HamiltonianMove(nsteps, epsilon,
\* nsplits=2, cov=1.0), nsteps a range (1, MaxL + 1)
nsplits == 2
epsilon == 1
cov == 1
Momenta == (0 - PMax)..PMax
Ls == 1..MaxL

\* _hmc_vector.apply
cov_apply(x) == cov * x

\* 0.5 * epsilon * grad_lnprob at q (ivar is even: the half is exact)
half_step(eps, q) == (eps * grad_lnprob(q)) \div 2

\* the loop of _hmc_wrapper.__call__: i-th of nsteps full steps in position
\* and, but for the last, in momentum
RECURSIVE hmc_steps(_, _, _, _)
hmc_steps(q, p, i, L) ==
    IF i >= L THEN [q |-> q, p |-> p]
    ELSE LET q1 == q + epsilon * cov_apply(p)
             p1 == IF i < L - 1 THEN p + epsilon * grad_lnprob(q1) ELSE p
         IN  hmc_steps(q1, p1, i + 1, L)

\* the factor _hmc_wrapper.__call__ returns with the final state
hmc_factor(state, current_p, p) ==
    IF ~isfinite(lnprob(state)) THEN 0
    ELSE current_p * cov_apply(current_p) - p * cov_apply(p)

\* _hmc_wrapper.__call__: leapfrog from (current_state, current_p)
hmc_call(current_state, current_p, L) ==
    LET p0 == current_p + half_step(epsilon, current_state.coords)
        r  == hmc_steps(current_state.coords, p0, 0, L)
        state == State(r.q)
        p  == 0 - (r.p + half_step(epsilon, r.q))
    IN  [state |-> state, factor |-> hmc_factor(state, current_p, p),
         p |-> p]

\* the assignment, were the indices divided by n
modulo_inds_div(n) == [i \in DOMAIN walkers |-> (i - 1) \div n]

\* np.arange(nwalkers) % self.nsplits, for self.nsplits = n
modulo_inds(n) == [i \in DOMAIN walkers |-> (i - 1) % n]

\* random.shuffle(inds): any rearrangement of the assignment
Shuffles(n) ==
    {f \in [DOMAIN walkers -> 0..(n - 1)] :
        \A k \in 0..(n - 1) :
            Cardinality({i \in DOMAIN walkers : f[i] = k})
                = Cardinality({i \in DOMAIN walkers : modulo_inds(n)[i] = k})}

\* S1 = inds == i
S1(inds, i) == {w \in DOMAIN inds : inds[w] = i}

\* the outer acceptance test of HamiltonianMove.update:
\* factor + state.lnprob - walkers[j].lnprob > log(random.rand())
hm_accept(factor, state, old, logu) ==
    LT(logu, Add(Add(factor, lnprob(state)), Neg(lnprob(old))))

\* HamiltonianMove.update of a move whose nsplits is n, up to the loop over
\* the splits
HamiltonianMove_update_start(kind, n) ==
    /\ CanStep
    /\ \E inds \in Shuffles(n) :
        hm' = [pc |-> "split", inds |-> inds, i |-> 0, nsplits |-> n]
    /\ lastMove' = kind
    /\ decided' = [w \in DOMAIN walkers |-> FALSE]
    /\ inmap' = FALSE
    /\ UNCHANGED <<bk, pk>>
    /\ UNCHANGED <<walkers, _coords, _lnprior, _lnlike, acceptance, raised,
                   nuts>>

\* HamiltonianMove.update of a move with the default nsplits
HamiltonianMove_start(kind) == HamiltonianMove_update_start(kind, nsplits)

\* the end of one pass of the loop over the splits: the next split, or the
\* return (also by the exception of Ensemble.update)
hm_next(e) ==
    IF e.raised = "no" /\ hm.i + 1 < hm.nsplits
    THEN [pc |-> "split", inds |-> hm.inds, i |-> hm.i + 1,
          nsplits |-> hm.nsplits]
    ELSE Idle

\* the accept loop and the update that end one pass: results res[w] of
\* pool.map for the walkers of S1, log(random.rand()) per walker
hm_commit(res, logu) ==
    LET S == DOMAIN res
        acc == [w \in S |-> hm_accept(res[w].factor, res[w].state,
                                      walkers[w], logu[w])]
        states == [w \in S |->
            [res[w].state EXCEPT !.accepted = acc[w] \/ res[w].state.accepted]]
        e == Ensemble_update(walkers, states)
    IN  /\ walkers' = e.walkers
        /\ _coords' = e._coords
        /\ _lnprior' = e._lnprior
        /\ _lnlike' = e._lnlike
        /\ raised' = e.raised
        /\ decided' = [w \in DOMAIN decided |-> IF w \in S THEN acc[w] ELSE decided[w]]
        /\ hm' = hm_next(e)

\* one pass of the loop of HamiltonianMove.update with the _hmc_wrapper
HMC_split ==
    /\ hm.pc = "split"
    /\ lastMove = "HMC"
    /\ \E L \in Ls, momenta \in [S1(hm.inds, hm.i) -> Momenta],
          logu \in [S1(hm.inds, hm.i) -> LogUs] :
        hm_commit([w \in S1(hm.inds, hm.i) |->
                      hmc_call(walkers[w], momenta[w], L)], logu)
    /\ UNCHANGED <<bk, pk>>
    /\ UNCHANGED <<acceptance, lastMove, nuts, inmap>>

\* ------------------------------------------------------------ NoUTurnsMove
\* _nuts_wrapper(max_depth=500, delta_max=1000.0): max_depth is scaled down
max_depth == 2
delta_max == 1000

\* random.rand(), held as its numerator over RandDen
Rands == 0..(RandDen - 1)
\* random.rand() < a / b, for b > 0
rand_lt(r, a, b) == r * b < RandDen * a

\* log(u) of the slice variable u = random.uniform(0, exp(f)) is f - gap
SliceGaps == {1, 5}

\* a State with the momentum attached to it
WithMomentum(st, p) ==
    [coords |-> st.coords, lnprior |-> st.lnprior, lnlike |-> st.lnlike,
     accepted |-> st.accepted, _momentum |-> p]

\* the State without the transient momentum
Plain(st) ==
    [coords |-> st.coords, lnprior |-> st.lnprior, lnlike |-> st.lnlike,
     accepted |-> st.accepted]

\* _nuts_wrapper.leapfrog
leapfrog(state, eps) ==
    LET p == state._momentum + half_step(eps, state.coords)
        q == state.coords + eps * cov_apply(p)
    IN  WithMomentum(State(q), p + half_step(eps, q))

\* the joint log-density build_tree compares with log(u) at depth 0: the
\* log-probability of the state the leapfrog started from, less the kinetic
\* energy of the state it reached
log_prob_pr(state, state_pr) ==
    Add(lnprob(state),
        Neg(state_pr._momentum * cov_apply(state_pr._momentum)))

\* the depth-0 case of build_tree
build_leaf(state, u, v, d) ==
    LET state_pr == leapfrog(state, v * epsilon)
        lp == log_prob_pr(state, state_pr)
    IN  [m |-> state_pr, p |-> state_pr, pr |-> state_pr,
         n |-> IF LT(u, lp) THEN 1 ELSE 0,
         s |-> LT(Add(u, 0 - 2 * delta_max), lp),
         d |-> d, leaps |-> 1]

\* the no-U-turn test on the two ends of a trajectory
no_uturn(state_m, state_p) ==
    LET delta == state_p.coords - state_m.coords
    IN  delta * state_m._momentum >= 0 /\ delta * state_p._momentum >= 0

\* _nuts_wrapper.build_tree: d is the sequence of the values random.rand()
\* will return, the result's d what is left of it
RECURSIVE build_tree(_, _, _, _, _)
build_tree(state, u, v, j, d) ==
    IF j = 0 THEN build_leaf(state, u, v, d)
    ELSE
      LET t1 == build_tree(state, u, v, j - 1, d)
      IN  IF ~t1.s THEN t1
          ELSE
            LET t2 == build_tree(IF v < 0 THEN t1.m ELSE t1.p, u, v, j - 1,
                                 t1.d)
                state_m == IF v < 0 THEN t2.m ELSE t1.m
                state_p == IF v < 0 THEN t1.p ELSE t2.p
                draw == t2.n > 0
                take == draw /\ rand_lt(Head(t2.d), t2.n, t1.n + t2.n)
            IN  [m |-> state_m, p |-> state_p,
                 pr |-> IF take THEN t2.pr ELSE t1.pr,
                 n |-> t1.n + t2.n,
                 s |-> t2.s /\ no_uturn(state_m, state_p),
                 d |-> IF draw THEN Tail(t2.d) ELSE t2.d,
                 leaps |-> t1.leaps + t2.leaps]

\* 2^j
RECURSIVE pow2(_)
pow2(j) == IF j = 0 THEN 1 ELSE 2 * pow2(j - 1)

\* the sequences of j values of random.rand()
RECURSIVE RandSeqs(_)
RandSeqs(k) ==
    IF k = 0 THEN {<<>>}
    ELSE {<<r>> \o t : r \in Rands, t \in RandSeqs(k - 1)}

\* HamiltonianMove.update with the _nuts_wrapper: the momenta of the split
\* are sampled and the walkers of S1 handed to pool.map
NUTS_map ==
    /\ hm.pc = "split"
    /\ lastMove = "NUTS"
    /\ \E momenta \in [S1(hm.inds, hm.i) -> Momenta] :
        hm' = [pc |-> "map", inds |-> hm.inds, i |-> hm.i,
               nsplits |-> hm.nsplits, momenta |-> momenta, res |-> <<>>]
    /\ UNCHANGED <<bk, pk>>
    /\ UNCHANGED <<walkers, _coords, _lnprior, _lnlike, acceptance, raised,
                   lastMove, decided, nuts, inmap>>

\* the walkers of the split pool.map has not run yet
Pending == S1(hm.inds, hm.i) \ DOMAIN hm.res

\* _nuts_wrapper.__call__, up to its loop: the pool starts on any walker it
\* has not run yet; the slice variable is drawn
Nuts_begin ==
    /\ hm.pc = "map"
    /\ nuts.pc = "none"
    /\ \E w \in Pending, gap \in SliceGaps :
        LET state == WithMomentum(walkers[w], hm.momenta[w])
            f == Add(lnprob(state), Neg(hm.momenta[w] * cov_apply(hm.momenta[w])))
        IN  nuts' = [pc |-> "loop", w |-> w, state |-> state,
                     state_plus |-> state, state_minus |-> state, n |-> 1,
                     u |-> Add(f, 0 - gap), j |-> 0, done |-> 0,
                     leaps |-> 0, s |-> FALSE, n_pr |-> 0, ra |-> 0,
                     replaced |-> FALSE, v |-> 0, from |-> state]
    /\ inmap' = TRUE
    /\ UNCHANGED <<bk, pk>>
    /\ UNCHANGED <<walkers, _coords, _lnprior, _lnlike, acceptance, raised,
                   lastMove, decided, hm>>

\* the edge state the top-level loop hands to build_tree for direction v
tree_start(v) == nuts.state_minus

\* the loop condition, were the range of j one longer
nuts_continue_onemore(j, s, state_minus, state_plus) ==
    /\ j + 1 <= max_depth
    /\ s
    /\ no_uturn(state_minus, state_plus)

\* the replacement test, were the new count added to the old one in it
nuts_take_sum(s, r, n_pr, n) == s /\ rand_lt(r, n_pr, n + n_pr)

\* the test that replaces the proposal of the transition:
\* s and random.rand() < float(n_pr) / n
nuts_take(s, r, n_pr, n) == s /\ rand_lt(r, n_pr, n)

\* whether the loop goes on to depth j + 1
nuts_continue(j, s, state_minus, state_plus) ==
    /\ j + 1 < max_depth
    /\ s
    /\ no_uturn(state_minus, state_plus)

\* one pass of the loop of _nuts_wrapper.__call__: the direction is drawn,
\* the tree of depth j built, the proposal replaced or not, the counts
\* added, the U-turn tested; v and from record the direction drawn and the
\* state handed to build_tree
Nuts_double ==
    /\ nuts.pc = "loop"
    /\ \E rv \in Rands, d \in RandSeqs(pow2(nuts.j) - 1) :
        LET v == IF rand_lt(rv, 1, 2) THEN 0 - 1 ELSE 1
        IN  \E t \in {build_tree(tree_start(v), nuts.u, v, nuts.j, d)} :
            \E ra \in IF t.s THEN Rands ELSE {0} :
            \E state_minus \in {IF v < 0 THEN t.m ELSE nuts.state_minus} :
            \E state_plus \in {IF v < 0 THEN nuts.state_plus ELSE t.p} :
            \E go \in {nuts_continue(nuts.j, t.s, state_minus, state_plus)} :
            \E take \in {nuts_take(t.s, ra, t.n, nuts.n)} :
                nuts' = [nuts EXCEPT
                    !.pc = IF go THEN "loop" ELSE "return",
                    !.state = IF take THEN [t.pr EXCEPT !.accepted = TRUE]
                              ELSE @,
                    !.state_plus = state_plus,
                    !.state_minus = state_minus,
                    !.n = @ + t.n,
                    !.j = IF go THEN @ + 1 ELSE @,
                    !.done = @ + 1,
                    !.leaps = t.leaps,
                    !.s = t.s,
                    !.n_pr = t.n,
                    !.ra = ra,
                    !.replaced = take,
                    !.v = v,
                    !.from = tree_start(v)]
    /\ UNCHANGED <<bk, pk>>
    /\ UNCHANGED <<walkers, _coords, _lnprior, _lnlike, acceptance, raised,
                   lastMove, decided, hm, inmap>>

\* the factor a NUTS transition returns with its state
nuts_factor == NegInf

\* the return of _nuts_wrapper.__call__: (state, factor) is the result of
\* pool.map for the walker
Nuts_return ==
    /\ nuts.pc = "return"
    /\ hm' = [hm EXCEPT !.res =
            [w \in DOMAIN hm.res \cup {nuts.w} |->
                IF w = nuts.w
                THEN [state |-> Plain(nuts.state), factor |-> nuts_factor]
                ELSE hm.res[w]]]
    /\ nuts' = NoTask
    /\ UNCHANGED <<bk, pk>>
    /\ UNCHANGED <<walkers, _coords, _lnprior, _lnlike, acceptance, raised,
                   lastMove, decided, inmap>>

\* pool.map has returned: the accept loop and the update of the split
NUTS_commit ==
    /\ hm.pc = "map"
    /\ nuts.pc = "none"
    /\ Pending = {}
    /\ \E logu \in [S1(hm.inds, hm.i) -> LogUs] : hm_commit(hm.res, logu)
    /\ UNCHANGED <<bk, pk>>
    /\ UNCHANGED <<acceptance, lastMove, nuts, inmap>>

Next ==
    \/ MHMove_update
    \/ HamiltonianMove_start("HMC")
    \/ HMC_split
    \/ HamiltonianMove_start("NUTS")
    \/ NUTS_map
    \/ Nuts_begin
    \/ Nuts_double
    \/ Nuts_return
    \/ NUTS_commit

Spec == Init /\ [][Next]_vars

\* ------------------------------------------------- the split configuration
\* the values of nsplits a HamiltonianMove is constructed with
SplitCounts == 1..(nwalkers + 1)

\* the complement of some group of n splits is empty: one split, or more
\* splits than walkers
IllegalSplit(n) ==
    \E k \in 0..(n - 1) : {w \in Walkers : modulo_inds(n)[w] # k} = {}
    \/ n > nwalkers

\* HamiltonianMove(nsteps, epsilon, nsplits=n).update
HamiltonianMove_configured ==
    \E n \in SplitCounts : HamiltonianMove_update_start("HMC", n)

NextSplits ==
    \/ HamiltonianMove_configured
    \/ HMC_split

\* HMC steps of moves of every split count
SpecSplits == Init /\ [][NextSplits]_vars

\* ------------------------------------------------ HMC on any model adapter
\* the log-likelihoods a model adapter may return at the end of a
\* trajectory: -inf, +inf, nan and a finite value
EndLnlikes == {NegInf, PosInf, NaN, 0 - 2}

\* _hmc_wrapper.__call__ on a model that returns the log-likelihood ll at
\* the final position
hmc_call_any(current_state, current_p, L, ll) ==
    LET c == hmc_call(current_state, current_p, L)
        state == [c.state EXCEPT !.lnlike = ll]
    IN  [state |-> state, factor |-> hmc_factor(state, current_p, c.p)]

\* one pass of the loop of HamiltonianMove.update with the _hmc_wrapper,
\* on any model adapter
HMC_split_any ==
    /\ hm.pc = "split"
    /\ lastMove = "HMC"
    /\ \E L \in Ls, momenta \in [S1(hm.inds, hm.i) -> Momenta],
          ll \in [S1(hm.inds, hm.i) -> EndLnlikes],
          logu \in [S1(hm.inds, hm.i) -> LogUs] :
        hm_commit([w \in S1(hm.inds, hm.i) |->
                      hmc_call_any(walkers[w], momenta[w], L, ll[w])], logu)
    /\ UNCHANGED <<bk, pk>>
    /\ UNCHANGED <<acceptance, lastMove, nuts, inmap>>

NextAnyModel ==
    \/ HamiltonianMove_start("HMC")
    \/ HMC_split_any

\* HMC steps on any model adapter
SpecAnyModel == Init /\ [][NextAnyModel]_vars

\* ---------------------------------------------------------------- backends
\* the ensembles a driver records: those Ensemble.__init__ accepts
Recordable ==
    {Ensemble__init__(c) : c \in [Walkers -> 0..1]}

\* the rows of one iteration, as a backend stores them
row_coords(e) == e._coords
row_lnprior(e) == e._lnprior
row_lnlike(e) == e._lnlike

\* np.empty: a row of whatever the memory held, here a value no ensemble has
Junk == 4444444
empty_row == [w \in Walkers |-> Junk]
\* a row of zeros: the fill value of a new HDF5 dataset row, and of np.zeros
zero_row == [w \in Walkers |-> 0]

\* np.empty((l, k, d))
np_empty(l) == [r \in 1..l |-> empty_row]

\* np.resize(a, (l, k, d)): the first rows of a, repeated to fill; zeros
\* when a has no rows
np_resize(a, l) ==
    [r \in 1..l |-> IF Len(a) = 0 THEN zero_row
                     ELSE a[((r - 1) % Len(a)) + 1]]

\* a resize that kept no row
h5_resize_cleared(a, l) == [r \in 1..l |-> zero_row]

\* Dataset.resize(l, axis=0) of h5py: rows are cut off or filled with zeros
h5_resize(a, l) ==
    [r \in 1..l |-> IF r <= Len(a) THEN a[r] ELSE zero_row]

\* a[i] = row, for the 0-based index i of the code
put(a, i, row) == [a EXCEPT ![i + 1] = row]

\* DefaultBackend.extend
DefaultBackend_extend(b, n) ==
    LET l == b.niter + n IN
    IF ~b.alloc
    THEN [b EXCEPT !.size = l, !.alloc = TRUE,
                   !._coords = np_empty(l), !._lnprior = np_empty(l),
                   !._lnlike = np_empty(l),
                   !._acceptance = [w \in Walkers |-> 0]]
    ELSE [b EXCEPT !.size = l,
                   !._coords = np_resize(b._coords, l),
                   !._lnprior = np_resize(b._lnprior, l),
                   !._lnlike = np_resize(b._lnlike, l)]

\* ensemble.acceptance added to the counters
add_acceptance(acc, e) ==
    [w \in Walkers |-> acc[w] + (IF e.acceptance[w] THEN 1 ELSE 0)]

\* the rows of one iteration written and counted
Default_write(b, e) ==
    [b EXCEPT !._coords = put(@, b.niter, row_coords(e)),
              !._lnprior = put(@, b.niter, row_lnprior(e)),
              !._lnlike = put(@, b.niter, row_lnlike(e)),
              !._acceptance = add_acceptance(@, e),
              !.niter = @ + 1]

\* DefaultBackend.update: extend when the chain is full, then write
DefaultBackend_update(b, e) ==
    Default_write(IF b.niter >= b.size
                  THEN DefaultBackend_extend(b, b.niter - b.size + 1)
                  ELSE b, e)

\* the coordinates, were the allocated rows returned with the written ones
Default_coords_all(b) == b._coords

\* the read-back accessors of DefaultBackend: the rows up to niter
Default_coords(b) == SubSeq(b._coords, 1, b.niter)
Default_lnprior(b) == SubSeq(b._lnprior, 1, b.niter)
Default_lnlike(b) == SubSeq(b._lnlike, 1, b.niter)

\* DefaultBackend.lnprob: lnprior + lnlike, element by element
sum_rows(a, b) ==
    [r \in 1..Len(a) |-> [w \in Walkers |-> Add(a[r][w], b[r][w])]]

\* DefaultBackend.acceptance_fraction: acceptance / float(niter), as the
\* pair of its numerators and its denominator
fraction(acc, niter) == [num |-> acc, den |-> niter]

Default_read(b) ==
    [coords |-> Default_coords(b), lnprior |-> Default_lnprior(b),
     lnlike |-> Default_lnlike(b),
     lnprob |-> sum_rows(Default_lnprior(b), Default_lnlike(b)),
     acceptance_fraction |-> fraction(b._acceptance, b.niter)]

\* HDFBackend.extend, the first call on the object: the file is created
\* anew with a group of n rows
h5_create(n) ==
    [group |-> TRUE, niter |-> 0, size |-> n,
     coords |-> [r \in 1..n |-> zero_row],
     lnprior |-> [r \in 1..n |-> zero_row],
     lnlike |-> [r \in 1..n |-> zero_row],
     acceptance |-> [w \in Walkers |-> 0]]

\* HDFBackend.extend, a later call: the datasets are resized to niter + n
\* rows and the size attribute is written back as it was read
h5_extend(f, n) ==
    LET l == f.niter + n IN
    [f EXCEPT !.size = f.size,
              !.coords = h5_resize(f.coords, l),
              !.lnprior = h5_resize(f.lnprior, l),
              !.lnlike = h5_resize(f.lnlike, l)]

\* HDFBackend.extend: the file after the call
HDFBackend_extend(o, f, n) ==
    IF ~o.initialized THEN h5_create(n) ELSE h5_extend(f, n)

\* HDFBackend.update raises: there is no group to read niter from, or the
\* row to write is outside the datasets
HDFBackend_update_raises(o, f) ==
    \/ ~f.group
    \/ LET g == IF f.niter >= f.size
                THEN HDFBackend_extend(o, f, f.niter - f.size + 1) ELSE f
       IN  f.niter >= Len(g.coords)

\* HDFBackend.update: the file after a call that does not raise
HDFBackend_update(o, f, e) ==
    LET niter == f.niter
        g == IF niter >= f.size
             THEN HDFBackend_extend(o, f, niter - f.size + 1) ELSE f
    IN  [g EXCEPT !.coords = put(@, niter, row_coords(e)),
                  !.lnprior = put(@, niter, row_lnprior(e)),
                  !.lnlike = put(@, niter, row_lnlike(e)),
                  !.acceptance = add_acceptance(@, e),
                  !.niter = niter + 1]

\* the read-back accessors of HDFBackend: the rows up to the niter attribute
HDF_niter(f) == f.niter
HDF_coords(f) == SubSeq(f.coords, 1, f.niter)
HDF_lnprior(f) == SubSeq(f.lnprior, 1, f.niter)
HDF_lnlike(f) == SubSeq(f.lnlike, 1, f.niter)

HDF_read(f) ==
    [coords |-> HDF_coords(f), lnprior |-> HDF_lnprior(f),
     lnlike |-> HDF_lnlike(f),
     lnprob |-> sum_rows(HDF_lnprior(f), HDF_lnlike(f)),
     acceptance_fraction |-> fraction(f.acceptance, HDF_niter(f))]

\* check_dimensions on both backends: the dimensions of the ensemble are
\* taken on the first call
Backends_check_dimensions ==
    /\ ~dflt.dims
    /\ dflt' = [dflt EXCEPT !.dims = TRUE]
    /\ hdf' = [hdf EXCEPT !.dims = TRUE]
    /\ UNCHANGED <<hdf2, file, recD, recH>>
    /\ UNCHANGED ens

\* extend(n) on both backends
Backends_extend ==
    /\ dflt.dims
    /\ \E n \in 0..MaxExtend :
        /\ dflt.niter + n <= MaxIter
        /\ dflt' = DefaultBackend_extend(dflt, n)
        /\ file' = HDFBackend_extend(hdf, file, n)
    /\ hdf' = [hdf EXCEPT !.initialized = TRUE]
    /\ UNCHANGED <<hdf2, recD, recH>>
    /\ UNCHANGED ens

\* one iteration recorded: update(ensemble) on both backends, each call
\* returning or raising on its own
Backends_update ==
    /\ dflt.dims
    /\ dflt.niter < MaxIter
    /\ \E e \in Recordable :
        /\ e.raised = "no"
        /\ dflt' = DefaultBackend_update(dflt, e)
        /\ recD' = Append(recD, e)
        /\ IF HDFBackend_update_raises(hdf, file)
           THEN UNCHANGED <<file, recH>>
           ELSE /\ file' = HDFBackend_update(hdf, file, e)
                /\ recH' = Append(recH, e)
    /\ UNCHANGED <<hdf, hdf2>>
    /\ UNCHANGED ens

NextBackends ==
    \/ Backends_check_dimensions
    \/ Backends_extend
    \/ Backends_update

\* the backends under a driver; the ensemble it records is left alone
InitBackendsSpec == InitAt([w \in Walkers |-> 0])
SpecBackends == InitBackendsSpec /\ [][NextBackends]_vars

\* ------------------------------------------------- two objects on one file
\* a reset that cleared the group in the file
HDFBackend_reset_clears(f) == NoGroup

\* HDFBackend.reset, called by the constructor: the file after it; only
\* fields of the object are assigned
HDFBackend_reset_file(f) == f

\* the HDFBackend object of the k-th handle
Object(k) == IF k = 1 THEN hdf ELSE hdf2

\* the k-th object has been constructed
Made(k) == k = 1 \/ hdf2.made

\* the k-th object becomes o
SetObject(k, o) ==
    /\ hdf' = IF k = 1 THEN o ELSE hdf
    /\ hdf2' = IF k = 2 THEN o ELSE hdf2

\* HDFBackend.update calls self.extend
update_extends(f) == f.group /\ f.niter >= f.size

\* HDFBackend.update: the file after a call that raises before it writes a
\* row; the extend it made, if any, has been made
HDFBackend_update_raised(o, f) ==
    IF update_extends(f)
    THEN HDFBackend_extend(o, f, f.niter - f.size + 1) ELSE f

\* one row with the entries of the first j walkers replaced
put_walkers(a, i, row, j) ==
    [a EXCEPT ![i + 1] = [w \in Walkers |-> IF w <= j THEN row[w] ELSE @[w]]]

\* HDFBackend.update: the file after a call that raises in its loop over the
\* walkers, j walkers written; the counters and niter are not reached
HDFBackend_update_partial(o, f, e, j) ==
    LET g == HDFBackend_update_raised(o, f)
    IN  [g EXCEPT !.coords = put_walkers(@, f.niter, row_coords(e), j),
                  !.lnprior = put_walkers(@, f.niter, row_lnprior(e), j),
                  !.lnlike = put_walkers(@, f.niter, row_lnlike(e), j)]

\* HDFBackend(filename, name): a second object on the file of the first
Reload_construct ==
    /\ ~hdf2.made
    /\ hdf2' = [made |-> TRUE, initialized |-> HDFBackend.initialized,
                dims |-> HDFBackend.dims]
    /\ file' = HDFBackend_reset_file(file)
    /\ UNCHANGED <<dflt, hdf, recD, recH>>
    /\ UNCHANGED ens

\* check_dimensions through the k-th object
Reload_check_dimensions(k) ==
    /\ Made(k)
    /\ ~Object(k).dims
    /\ SetObject(k, [Object(k) EXCEPT !.dims = TRUE])
    /\ UNCHANGED <<dflt, file, recD, recH>>
    /\ UNCHANGED ens

\* extend(n) through the k-th object
Reload_extend(k) ==
    /\ Made(k)
    /\ Object(k).dims
    /\ \E n \in 0..MaxExtend :
        /\ (IF file.group THEN file.niter ELSE 0) + n <= MaxIter
        /\ file' = HDFBackend_extend(Object(k), file, n)
    /\ SetObject(k, [Object(k) EXCEPT !.initialized = TRUE])
    /\ UNCHANGED <<dflt, recD, recH>>
    /\ UNCHANGED ens

\* update(ensemble) through the k-th object, returning or raising before the
\* first row is written
Reload_update(k) ==
    /\ Made(k)
    /\ Object(k).dims
    /\ Len(recH) < MaxIter
    /\ \E e \in Recordable :
        /\ e.raised = "no"
        /\ IF HDFBackend_update_raises(Object(k), file)
           THEN /\ file' = HDFBackend_update_raised(Object(k), file)
                /\ UNCHANGED recH
           ELSE /\ file' = HDFBackend_update(Object(k), file, e)
                /\ recH' = Append(recH, e)
    /\ SetObject(k, [Object(k) EXCEPT
            !.initialized = @ \/ update_extends(file)])
    /\ UNCHANGED <<dflt, recD>>
    /\ UNCHANGED ens

\* update(ensemble) through the k-th object, raising while a walker is
\* written
Reload_update_fails(k) ==
    /\ Made(k)
    /\ Object(k).dims
    /\ ~HDFBackend_update_raises(Object(k), file)
    /\ \E e \in Recordable, j \in 0..(nwalkers - 1) :
        /\ e.raised = "no"
        /\ file' = HDFBackend_update_partial(Object(k), file, e, j)
    /\ SetObject(k, [Object(k) EXCEPT
            !.initialized = @ \/ update_extends(file)])
    /\ UNCHANGED <<dflt, recD, recH>>
    /\ UNCHANGED ens

NextReload ==
    \/ Reload_construct
    \/ Reload_check_dimensions(1)
    \/ Reload_check_dimensions(2)
    \/ Reload_extend(1)
    \/ Reload_extend(2)
    \/ Reload_update(1)
    \/ Reload_update(2)
    \/ Reload_update_fails(1)
    \/ Reload_update_fails(2)

\* one file under two HDFBackend objects
SpecReload == InitBackendsSpec /\ [][NextReload]_vars

\* ------------------------------------- HamiltonianMove with cov = "adapt"
\* the ensemble of the adaptive move has one walker more and the move as
\* many splits, HamiltonianMove(nsteps, epsilon, nsplits=3, cov="adapt"), so
\* that the complement of every split holds two walkers
AdaptWalkers == 1..(nwalkers + 1)
adapt_nsplits == nwalkers + 1

\* S2 = inds != i
S2(inds, i) == {w \in DOMAIN inds : inds[w] # i}

\* the sum of the values of a function
RECURSIVE np_sum(_)
np_sum(f) ==
    IF DOMAIN f = {} THEN 0
    ELSE LET w == CHOOSE x \in DOMAIN f : TRUE
         IN  f[w] + np_sum([x \in DOMAIN f \ {w} |-> f[x]])

\* np.cov(c, rowvar=0) of the rows c, ndim = 1, in units of 1/2: the sample
\* variance with n - 1 in the denominator, nan for fewer than two rows
np_cov(c) ==
    LET n == Cardinality(DOMAIN c)
        sq == np_sum([w \in DOMAIN c |-> c[w] * c[w]])
        sm == np_sum(c)
    IN  IF n < 2 THEN NaN
        ELSE (2 * (n * sq - sm * sm)) \div (n * (n - 1))

\* c = ensemble.coords[S2]: the rows of the coordinate matrix
complement_coords(S, coords) == [w \in S |-> coords[w]]

\* _hmc_vector.apply for the covariance c2, in units of 1/2
adapt_apply(c2, x) == (c2 * x) \div 2

\* the division in adapt_apply leaves no remainder
exact(c2, x) == (c2 * x) % 2 = 0

\* the loop of _hmc_wrapper.__call__ with the covariance c2; ok tells that
\* the trajectory stayed on the integers
RECURSIVE adapt_steps(_, _, _, _, _, _)
adapt_steps(c2, q, p, i, L, ok) ==
    IF i >= L THEN [q |-> q, p |-> p, ok |-> ok]
    ELSE LET q1 == q + epsilon * adapt_apply(c2, p)
             p1 == IF i < L - 1 THEN p + epsilon * grad_lnprob(q1) ELSE p
         IN  adapt_steps(c2, q1, p1, i + 1, L, ok /\ exact(c2, p))

\* _hmc_wrapper.__call__ with the covariance c2.  A covariance of nan, or of
\* 0 (inv_cov = inf, cov * p = 0 * inf), makes the position nan; the state
\* at nan has a nan log-probability and the factor returned is 0.0
adapt_call(c2, current_state, current_p, L) ==
    IF c2 = NaN \/ c2 = 0
    THEN [state |-> State(NaN), factor |-> 0, ok |-> TRUE]
    ELSE
      LET p0 == current_p + half_step(epsilon, current_state.coords)
          r  == adapt_steps(c2, current_state.coords, p0, 0, L, TRUE)
          state == State(r.q)
          p  == 0 - (r.p + half_step(epsilon, r.q))
      IN  [state |-> state,
           factor |-> IF ~isfinite(lnprob(state)) THEN 0
                      ELSE adapt_apply(c2, current_p * current_p)
                               - adapt_apply(c2, p * p),
           ok |-> r.ok /\ exact(c2, current_p * current_p)
                       /\ exact(c2, p * p)]

\* HamiltonianMove.update with cov = "adapt", from the top of one pass of
\* the loop over the splits to the covariance: the complement's rows of
\* ensemble.coords are read and the covariance estimated.  start holds the
\* coordinate matrix as the step found it and committed the coordinates of
\* the states the earlier passes handed to Ensemble.update
Adapt_cov ==
    /\ hm.pc = "split"
    /\ lastMove = "HMCadapt"
    /\ LET c == complement_coords(S2(hm.inds, hm.i), _coords)
       IN  hm' = [pc |-> "cov", inds |-> hm.inds, i |-> hm.i,
                  nsplits |-> hm.nsplits, c |-> c, cov |-> np_cov(c),
                  start |-> IF hm.i = 0 THEN _coords ELSE hm.start,
                  committed |-> IF hm.i = 0 THEN <<>> ELSE hm.committed]
    /\ UNCHANGED <<bk, pk>>
    /\ UNCHANGED <<walkers, _coords, _lnprior, _lnlike, acceptance, raised,
                   lastMove, decided, nuts, inmap>>

\* the rest of the pass: the momenta are sampled (those that keep the
\* trajectory on the integers), the dynamics integrated, the states
\* accepted or not and handed to Ensemble.update
Adapt_split ==
    /\ hm.pc = "cov"
    /\ \E L \in Ls, momenta \in [S1(hm.inds, hm.i) -> Momenta],
          logu \in [S1(hm.inds, hm.i) -> LogUs] :
        \E res \in {[w \in S1(hm.inds, hm.i) |->
                       adapt_call(hm.cov, walkers[w], momenta[w], L)]} :
            /\ \A w \in DOMAIN res : res[w].ok
            /\ \E states \in {[w \in DOMAIN res |->
                    [res[w].state EXCEPT !.accepted =
                        hm_accept(res[w].factor, res[w].state, walkers[w],
                                  logu[w])]]} :
               \E e \in {Ensemble_update(walkers, states)} :
                /\ walkers' = e.walkers
                /\ _coords' = e._coords
                /\ _lnprior' = e._lnprior
                /\ _lnlike' = e._lnlike
                /\ raised' = e.raised
                /\ decided' = [w \in DOMAIN decided |->
                        IF w \in DOMAIN states THEN states[w].accepted
                        ELSE decided[w]]
                /\ hm' = IF e.raised = "no" /\ hm.i + 1 < hm.nsplits
                         THEN [pc |-> "split", inds |-> hm.inds,
                               i |-> hm.i + 1, nsplits |-> hm.nsplits,
                               start |-> hm.start,
                               committed |->
                                   [w \in DOMAIN hm.committed
                                           \cup DOMAIN states |->
                                       IF w \in DOMAIN states
                                       THEN states[w].coords
                                       ELSE hm.committed[w]]]
                         ELSE Idle
    /\ UNCHANGED <<bk, pk>>
    /\ UNCHANGED <<acceptance, lastMove, nuts, inmap>>

NextAdapt ==
    \/ HamiltonianMove_update_start("HMCadapt", adapt_nsplits)
    \/ Adapt_cov
    \/ Adapt_split

\* an ensemble of AdaptWalkers, constructed, and steps of the adaptive move
InitAdapt == \E coords \in [AdaptWalkers -> InitCoords] : InitAt(coords)

SpecAdapt == InitAdapt /\ [][NextAdapt]_vars

\* ----------------------------------------------- pickling the Ensemble
\* Ensemble.__getstate__: d is the object's own __dict__, the pool is popped
\* from it and d returned, to be serialized without the pool
Ensemble__getstate__ ==
    /\ CanStep
    /\ pool' = NoPool
    /\ pickled' = [made |-> TRUE, walkers |-> walkers, _coords |-> _coords,
                   _lnprior |-> _lnprior, _lnlike |-> _lnlike,
                   acceptance |-> acceptance]
    /\ UNCHANGED bk
    /\ UNCHANGED <<walkers, _coords, _lnprior, _lnlike, acceptance, raised,
                   lastMove, decided, hm, nuts, inmap, restored>>

\* Ensemble.__setstate__ on a new object: the deserialized state is its
\* __dict__ and a DefaultPool its pool
Ensemble__setstate__ ==
    /\ pickled.made
    /\ restored' = [made |-> TRUE, walkers |-> pickled.walkers,
                    _coords |-> pickled._coords,
                    _lnprior |-> pickled._lnprior,
                    _lnlike |-> pickled._lnlike,
                    acceptance |-> pickled.acceptance,
                    pool |-> "DefaultPool"]
    /\ UNCHANGED bk
    /\ UNCHANGED <<walkers, _coords, _lnprior, _lnlike, acceptance, raised,
                   lastMove, decided, hm, nuts, inmap, pool, pickled>>

\* MHMove.update on the live ensemble: Ensemble.propose maps over self.pool
MHMove_update_pool ==
    /\ pool # NoPool
    /\ MHMove_update

\* MHMove.update on a live ensemble without the attribute: self.pool in
\* Ensemble.propose raises AttributeError
MHMove_update_nopool ==
    /\ pool = NoPool
    /\ CanStep
    /\ raised' = "AttributeError"
    /\ lastMove' = "MH"
    /\ UNCHANGED <<bk, pk>>
    /\ UNCHANGED <<walkers, _coords, _lnprior, _lnlike, acceptance, decided,
                   hm, nuts, inmap>>

NextPickle ==
    \/ Ensemble__getstate__
    \/ Ensemble__setstate__
    \/ MHMove_update_pool
    \/ MHMove_update_nopool

\* an ensemble constructed with the default pool or with one of its own
InitPickle ==
    \E coords \in [Walkers -> InitCoords], p \in Pools : InitWith(coords, p)

SpecPickle == InitPickle /\ [][NextPickle]_vars

\* ------------------------------------------------------------------ claims
\* a Move.update step has returned or raised
StepEnded == lastMove # "none" /\ hm.pc = "idle"

\* C1: whenever the construction of the Ensemble or Ensemble.update has
\* returned normally, every stored coordinate, log-prior and log-likelihood
\* is finite; a non-finite stored value goes with a raised error.
C1_Feasibility ==
    /\ raised = "no" =>
          allfinite(_coords) /\ allfinite(_lnprior) /\ allfinite(_lnlike)
    /\ (lastMove = "none" /\ raised # "no") => raised = "ValueError"
    /\ (lastMove # "none" /\ raised # "no") => raised = "RuntimeError"

\* C1 witness: a NUTS step has returned without an error and committed, away
\* from the walker's starting point, a state its trajectory selected
C1_Witness ==
    /\ StepEnded
    /\ raised = "no"
    /\ lastMove = "NUTS"
    /\ \E w \in Walkers : walkers[w].accepted /\ _coords[w] # 0

C4_NoDrawInMap == inmap = FALSE

\* the passes of the loop of a transition and the leapfrog steps of its last
\* tree are bounded
C5_NutsBounded ==
    nuts.pc # "none" =>
        /\ nuts.done <= max_depth
        /\ nuts.j < max_depth
        /\ nuts.pc = "loop" => nuts.done = nuts.j
        /\ nuts.done > 0 => nuts.leaps <= pow2(nuts.done - 1)

\* C5: a NUTS transition makes at most max_depth doublings and the tree of
\* depth j takes at most 2^j leapfrog steps; every pass of the loop is one
\* more doubling and leaves the transition in the loop or at its return, so
\* the transition returns after at most max_depth passes.
C5_NutsTerminates ==
    /\ []C5_NutsBounded
    /\ [][nuts.pc = "loop" =>
            /\ nuts'.pc \in {"loop", "return"}
            /\ nuts'.done = nuts.done + 1]_nuts

\* C5 witness: a transition returns after max_depth doublings, the last a
\* full tree
C5_Witness ==
    /\ nuts.pc = "return"
    /\ nuts.done = max_depth
    /\ nuts.leaps = pow2(max_depth - 1)

\* C6: the state a NUTS transition returns has a finite log-probability.
C6_NutsReturnsFinite ==
    nuts.pc = "return" => isfinite(lnprob(nuts.state))

C8_AcceptanceInSync ==
    (StepEnded /\ raised = "no") =>
        \A w \in Walkers : acceptance[w] = decided[w]


\* the rows a backend is to read back after the records rec
rows_of(rec, row(_)) == [k \in 1..Len(rec) |-> row(rec[k])]

C10_CommittedRowsOnly ==
    /\ dflt.niter = Len(recD)
    /\ dflt.alloc =>
          /\ Default_coords(dflt) = rows_of(recD, row_coords)
          /\ Default_lnprior(dflt) = rows_of(recD, row_lnprior)
          /\ Default_lnlike(dflt) = rows_of(recD, row_lnlike)
    /\ file.group =>
          /\ HDF_niter(file) = Len(recH)
          /\ HDF_coords(file) = rows_of(recH, row_coords)
          /\ HDF_lnprior(file) = rows_of(recH, row_lnprior)
          /\ HDF_lnlike(file) = rows_of(recH, row_lnlike)

\* C10 witness: both backends hold recorded rows and rows that extend
\* allocated after them
C10_Witness ==
    /\ dflt.niter >= 2
    /\ Len(dflt._coords) > dflt.niter
    /\ file.group
    /\ file.niter >= 2
    /\ Len(file.coords) > file.niter

\* the rows 1..n of a are the rows 1..n of b
same_rows(a, b, n) == Len(a) >= n /\ Len(b) >= n /\ SubSeq(a, 1, n) = SubSeq(b, 1, n)

\* C11: once iterations are recorded in a backend, no later extend, record
\* or failed record, through the first object or through a second one on
\* the same file, lowers niter or changes a recorded row.
C11_RecordedStayIntact ==
    [][/\ (file.group /\ HDF_niter(file) > 0) =>
            /\ file'.group
            /\ HDF_niter(file') >= HDF_niter(file)
            /\ same_rows(HDF_coords(file'), HDF_coords(file), file.niter)
            /\ same_rows(HDF_lnprior(file'), HDF_lnprior(file), file.niter)
            /\ same_rows(HDF_lnlike(file'), HDF_lnlike(file), file.niter)
       /\ dflt.niter > 0 =>
            /\ dflt'.niter >= dflt.niter
            /\ same_rows(Default_coords(dflt'), Default_coords(dflt),
                         dflt.niter)
            /\ same_rows(Default_lnprior(dflt'), Default_lnprior(dflt),
                         dflt.niter)
            /\ same_rows(Default_lnlike(dflt'), Default_lnlike(dflt),
                         dflt.niter)]_vars

\* the acceptance counters after the records rec
RECURSIVE acceptance_of(_)
acceptance_of(rec) ==
    IF rec = <<>> THEN [w \in Walkers |-> 0]
    ELSE add_acceptance(acceptance_of(SubSeq(rec, 1, Len(rec) - 1)),
                        rec[Len(rec)])

\* what is to be read back after the records rec
read_of(rec) ==
    [coords |-> rows_of(rec, row_coords),
     lnprior |-> rows_of(rec, row_lnprior),
     lnlike |-> rows_of(rec, row_lnlike),
     lnprob |-> sum_rows(rows_of(rec, row_lnprior), rows_of(rec, row_lnlike)),
     acceptance_fraction |-> fraction(acceptance_of(rec), Len(rec))]

\* the second object has been constructed and no recording call made
\* through it
OnlyRead == hdf2.made /\ ~hdf2.dims

\* C12: a second HDFBackend object constructed on the file and name of the
\* first reads back the coords, lnprior, lnlike, lnprob and
\* acceptance_fraction of the iterations recorded through the first, and
\* its construction leaves the file as it was.
C12_ReloadRoundTrip ==
    /\ []((OnlyRead /\ file.group) => HDF_read(file) = read_of(recH))
    /\ [][(~hdf2.made /\ hdf2'.made) => file' = file]_vars

\* C12 witness: the second object is constructed on a file that holds two
\* differing recorded iterations and rows allocated after them
C12_Witness ==
    /\ OnlyRead
    /\ file.group
    /\ file.niter >= 2
    /\ Len(file.coords) > file.niter
    /\ file.coords[1] # file.coords[2]

\* C13: an update of a move whose split configuration is illegal evaluates
\* no proposal and changes no walker, and it ends with an error.
C13_IllegalSplitRejected ==
    [][(hm.pc = "split" /\ IllegalSplit(hm.nsplits)) =>
          /\ walkers' = walkers
          /\ _coords' = _coords
          /\ hm'.pc = "idle" => raised' # "no"]_vars

\* C14: in an HMC step, a trajectory whose final state has a non-finite
\* log-probability (-inf, +inf or nan) is never marked accepted, whatever
\* the uniform draw and the initial momentum.
C14_HMCRejectsNonFinite ==
    [][(hm.pc = "split" /\ lastMove = "HMC") =>
          \A w \in S1(hm.inds, hm.i) :
              ~isfinite(lnprob(walkers'[w])) =>
                  /\ ~decided'[w]
                  /\ ~walkers'[w].accepted]_vars

\* C15 as stated: at each doubling whose subtree is valid the proposal is
\* replaced exactly on the draws below new_count / (old_count + new_count),
\* and the counts are added whether or not it is replaced.
C15_TopLevelSelection ==
    [][nuts.pc = "loop" =>
          /\ nuts'.n = nuts.n + nuts'.n_pr
          /\ nuts'.s =>
                (nuts'.replaced <=>
                    rand_lt(nuts'.ra, nuts'.n_pr, nuts.n + nuts'.n_pr))]_nuts

\* C15 amended: at each doubling whose subtree is valid the proposal is
\* replaced exactly on the draws below new_count / old_count, that is with
\* probability min(1, new_count / old_count); an invalid subtree never
\* replaces it; the counts are added whether or not it is replaced.
C15_TopLevelSelectionAmended ==
    [][nuts.pc = "loop" =>
          /\ nuts'.n = nuts.n + nuts'.n_pr
          /\ nuts'.s =>
                (nuts'.replaced <=> rand_lt(nuts'.ra, nuts'.n_pr, nuts.n))
          /\ ~nuts'.s => (~nuts'.replaced /\ nuts'.state = nuts.state)
          /\ (nuts'.replaced => nuts'.state.accepted)
          /\ (~nuts'.replaced => nuts'.state = nuts.state)]_nuts

\* C15 witness: a valid subtree with slice-valid points was built and the
\* draw left the proposal as it was, the counts added all the same
C15_Witness ==
    /\ nuts.pc # "none"
    /\ nuts.done >= 1
    /\ nuts.s
    /\ nuts.n_pr > 0
    /\ ~nuts.replaced
    /\ nuts.n > nuts.n_pr

\* C16: in the top-level loop of a NUTS transition the direction v = +1
\* builds the new subtree from the current rightmost state and replaces only
\* the rightmost state, and v = -1 builds it from the current leftmost
\* state and replaces only the leftmost state
C16_ExtendsFromEdge ==
    [][nuts.pc = "loop" =>
          /\ nuts'.v = 1 =>
                /\ nuts'.from = nuts.state_plus
                /\ nuts'.state_minus = nuts.state_minus
          /\ nuts'.v = 0 - 1 =>
                /\ nuts'.from = nuts.state_minus
                /\ nuts'.state_plus = nuts.state_plus]_nuts

C19_SerializeLeavesLive ==
    /\ [][pickled' # pickled =>
            /\ pool' = pool
            /\ walkers' = walkers
            /\ _coords' = _coords
            /\ _lnprior' = _lnprior
            /\ _lnlike' = _lnlike
            /\ acceptance' = acceptance]_vars
    /\ [](raised # "AttributeError")
    /\ [](restored.made =>
            /\ restored.walkers = pickled.walkers
            /\ restored._coords = pickled._coords
            /\ restored._lnprior = pickled._lnprior
            /\ restored._lnlike = pickled._lnlike
            /\ restored.acceptance = pickled.acceptance
            /\ restored.pool = "DefaultPool")

====
